---- MODULE Spec2Model ----
(***************************************************************************)
(* Model of the stream deck manager of lib.py: Key, Page, Manager and the  *)
(* configuration Parser.  The Manager's key callback runs on the device's  *)
(* reader thread; Parser.__init__ runs on the main thread.                 *)
(*                                                                         *)
(* Python's None is the string "None".  An empty slot of a page is the     *)
(* record NoKey.  A dict of the JSON configuration is a record; a key      *)
(* being present in a dict is the field being in the record's DOMAIN.      *)
(* A function key's function_config {"function_name": f} is carried as the *)
(* string f.  An image is the pair of what was pasted and drawn on it.     *)
(***************************************************************************)
EXTENDS Naturals, Sequences, FiniteSets, TLC

(***************************************************************************)
(* Bounds                                                                  *)
(***************************************************************************)
\* columns of the device; key_layout() is one row of Cols keys
Cols == 3
\* physical keys held down at the same time
MaxHeld == 2

(***************************************************************************)
(* Constants of lib.py                                                     *)
(***************************************************************************)
None == "None"

STANDARD_ICON == None

STANDARD_LABEL == "key"

\* the device collaborator's key_layout(): (rows, cols)
key_layout == <<1, Cols>>

n_keys == key_layout[1] * key_layout[2]

Slots == 0 .. (n_keys - 1)

\* deck_keys[i] is None
NoKey == [none |-> TRUE]

\* the canvas of PILHelper.create_image with nothing pasted or drawn
BlankImage == [icon |-> None, label |-> None]

\* what a key shows before the first set_key_image
NoImage == [icon |-> "unset", label |-> "unset"]

\* the icon files under config_path
ExistingFiles == {"up.png", "folder.png", "a.png", "b.png"}

\* os.path.isfile(os.path.join(config_path, icon))
IsFile(icon) == icon \in ExistingFiles

(***************************************************************************)
(* Configurations (config.json) and callback sources (functions.py)        *)
(***************************************************************************)
leafA == [name |-> "a", type |-> "empty", img |-> "a.png", label |-> "A"]

leafToggle ==
  [name |-> "t", type |-> "empty", img_on |-> "b.png", img_off |-> "a.png",
   label_on |-> "on", label_off |-> "off"]

leafMissing == [name |-> "m", type |-> "empty", img |-> "gone.png"]

leafNoImg == [name |-> "d", type |-> "empty", label_on |-> "on"]

funOk ==
  [name |-> "f", type |-> "function", function_config |-> "fn",
   img_on |-> "b.png", img_off |-> "a.png"]

funGone ==
  [name |-> "g", type |-> "function", function_config |-> "gone",
   img |-> "a.png"]

Folder(keyname, pagename, keys) ==
  [name |-> keyname, type |-> "folder",
   folder |-> [name |-> pagename, keys |-> keys]]

Config(keys) ==
  [page |-> [name |-> "root", keys |-> keys],
   folder_up_img |-> "up.png", folder_img |-> "folder.png"]

\* nested folders, a key with two looks, a function key, an empty slot
cfgNested ==
  Config(<< Folder("F", "sub", << leafToggle, Folder("G", "deep", << leafA >>) >>),
            leafToggle, funOk >>)

\* a page whose second slot names an icon file that does not exist
cfgMissingIcon ==
  Config(<< Folder("F", "sub", << leafMissing, leafA >>) >>)

\* keys without any img, no default_img: the icon is STANDARD_ICON
cfgNoImg ==
  Config(<< leafA, Folder("F", "sub", << leafA, leafNoImg >>) >>)

cfgNoImgRoot ==
  Config(<< leafNoImg, leafA >>)

\* more entries than slots, on the root and on a folder page
cfgOverflow ==
  Config(<< leafA, Folder("F", "sub", << leafA, leafToggle, leafA, leafToggle >>),
            leafToggle, leafA, Folder("X", "over", << leafA >>) >>)

\* a folder page named like the root page
cfgClash ==
  Config(<< Folder("F", "main", << leafA >>), leafToggle >>)

\* two folder pages of the same name
cfgTwice ==
  Config(<< Folder("F", "sub", << leafA >>), Folder("G", "sub", << leafToggle >>) >>)

\* a function key whose function the callback source does not define
cfgFunGone ==
  Config(<< funGone, Folder("F", "sub", << funGone, leafA >>) >>)

\* a key with two looks beside a folder
cfgTwoPages ==
  Config(<< leafToggle, Folder("F", "sub", << leafToggle >>) >>)

\* default_img and default_label given
cfgDefaults ==
  [page |-> [name |-> "root", keys |-> << leafNoImg, leafA >>],
   folder_up_img |-> "up.png", folder_img |-> "folder.png",
   default_img |-> "b.png", default_keys |-> "a.png", default_label |-> "dflt"]

cfgDefaultImg ==
  [page |-> [name |-> "root", keys |-> << leafNoImg >>],
   folder_up_img |-> "up.png", folder_img |-> "folder.png",
   default_img |-> "b.png"]

\* a required top-level key is absent
cfgIncomplete ==
  [page |-> [name |-> "root", keys |-> << leafA >>], folder_img |-> "folder.png"]

\* a key entry with img and label beside img_on, img_off, label_on, label_off
leafBoth ==
  [name |-> "x", type |-> "empty", img |-> "a.png", img_on |-> "b.png",
   img_off |-> "up.png", label |-> "L", label_on |-> "on", label_off |-> "off"]

\* a key entry with a look given for one state only
leafOnOnly ==
  [name |-> "o", type |-> "empty", img_on |-> "b.png", label_off |-> "off"]

\* single and per-state icons and labels together, and per-state ones alone
cfgTiers ==
  [page |-> [name |-> "root",
             keys |-> << leafBoth, Folder("F", "sub", << leafOnOnly >>) >>],
   folder_up_img |-> "up.png", folder_img |-> "folder.png",
   default_label |-> "dflt"]

\* a folder page inside a folder page of the same name
cfgSameName ==
  Config(<< Folder("F", "sub", << Folder("G", "sub", << leafA >>) >>) >>)

\* a folder page named like the root page, two folders down
cfgDeepMain ==
  Config(<< Folder("F", "a", << Folder("G", "b", << Folder("H", "main", << >>) >>) >>) >>)

Configs ==
  << cfgNested, cfgMissingIcon, cfgNoImg, cfgNoImgRoot, cfgOverflow, cfgClash,
     cfgTwice, cfgFunGone, cfgTwoPages, cfgDefaults, cfgDefaultImg,
     cfgIncomplete, cfgTiers, cfgSameName, cfgDeepMain >>

\* functions.py: the functions it defines, by name, and what each does
libNoop == ("fn" :> [act |-> "noop", arg |-> None])

VARIABLES
  config,        \* the JSON object of config.json
  fun_lib,       \* the functions of the callback source
  pc,            \* where Parser.__init__ stands
  stack,         \* the activations of Parser.__populate_pages
  parser,        \* Parser.default_img, default_label, folder_up_img, folder_img
  page_stash,    \* Manager.page_stash
  current_page,  \* Manager.current_page
  key_callback,  \* whether the device holds Manager.__key_change_callback
  display,       \* the image last given to deck.set_key_image, per key
  phys,          \* the device's keys: TRUE when held down
  last,          \* the operation that ended last, and how
  returned       \* what the last call of Page.get_key_style returned

vars ==
  << config, fun_lib, pc, stack, parser, page_stash, current_page,
     key_callback, display, phys, last, returned >>

(***************************************************************************)
(* Key and Page                                                            *)
(***************************************************************************)
\* Key.__init__: a new key is released
Key(name, icon_pressed, icon_released, label_pressed, label_released, state, on_press) ==
  [name |-> name, icon_pressed |-> icon_pressed,
   icon_released |-> icon_released, label_pressed |-> label_pressed,
   label_released |-> label_released, state |-> state,
   on_press_fun |-> on_press, pressed |-> FALSE]

\* Page.__init__, making one slot more than the device has keys
PageExtraSlot(name, dimensions) ==
  [name |-> name,
   deck_keys |-> [i \in 0 .. (dimensions[1] * dimensions[2]) |-> NoKey]]

\* Page.__init__: dimensions[0] * dimensions[1] empty slots
Page(name, dimensions) ==
  [name |-> name,
   deck_keys |-> [i \in 0 .. (dimensions[1] * dimensions[2] - 1) |-> NoKey]]

\* get_key_style, giving the released look whether the Key is pressed or not
GetKeyStyleReleased(page, key) ==
  LET k == page.deck_keys[key]
  IN  IF k = NoKey
        THEN [name |-> None, icon |-> None, label |-> None]
        ELSE [name |-> k.name, icon |-> k.icon_released,
              label |-> k.label_released]

\* get_key_style, giving an empty slot the look of a Key made with no
\* arguments
GetKeyStyleDefault(page, key) ==
  LET k == page.deck_keys[key]
  IN  IF k = NoKey
        THEN [name |-> "undefined", icon |-> STANDARD_ICON,
              label |-> STANDARD_LABEL]
        ELSE [name |-> k.name,
              icon |-> IF k.pressed THEN k.icon_pressed ELSE k.icon_released,
              label |-> IF k.pressed THEN k.label_pressed ELSE k.label_released]

\* Page.get_key_style
GetKeyStyle(page, key) ==
  LET k == page.deck_keys[key]
  IN  IF k = NoKey
        THEN [name |-> None, icon |-> None, label |-> None]
        ELSE [name |-> k.name,
              icon |-> IF k.pressed THEN k.icon_pressed ELSE k.icon_released,
              label |-> IF k.pressed THEN k.label_pressed ELSE k.label_released]

(***************************************************************************)
(* Manager: rendering                                                      *)
(***************************************************************************)
\* Manager.__render_key_image: the icon pasted and the label drawn
RenderKeyImage(icon_file, label_text) ==
  [icon |-> icon_file, label |-> label_text]

\* __update_key_image, showing a blank key for an icon file that is missing
UpdateKeyImageBlank(stash, cp, disp, key) ==
  IF cp \notin DOMAIN stash
    THEN [display |-> disp, err |-> "KeyError"]
    ELSE LET key_style == GetKeyStyle(stash[cp], key)
         IN  IF key_style.icon = None /\ stash[cp].deck_keys[key] # NoKey
               THEN [display |-> disp, err |-> "TypeError"]
               ELSE [display |->
                       [disp EXCEPT ![key] =
                          IF IsFile(key_style.icon)
                            THEN RenderKeyImage(key_style.icon, key_style.label)
                            ELSE RenderKeyImage(None, None)],
                     err |-> None]

\* __update_key_image, looking the page up with a default: a page that is
\* not in page_stash shows nothing and raises nothing
UpdateKeyImageNoPage(stash, cp, disp, key) ==
  IF cp \notin DOMAIN stash
    THEN [display |-> disp, err |-> None]
    ELSE LET key_style == GetKeyStyle(stash[cp], key)
         IN  IF stash[cp].deck_keys[key] = NoKey
               THEN [display |-> [disp EXCEPT ![key] = RenderKeyImage(None, None)],
                     err |-> None]
               ELSE IF key_style.icon = None
                      THEN [display |-> disp, err |-> "TypeError"]
                      ELSE IF IsFile(key_style.icon)
                             THEN [display |->
                                     [disp EXCEPT ![key] =
                                        RenderKeyImage(key_style.icon,
                                                       key_style.label)],
                                   err |-> None]
                             ELSE [display |-> disp, err |-> "IOError"]

\* Manager.__update_key_image: the display after it, and the error it raises
UpdateKeyImage(stash, cp, disp, key) ==
  IF key < n_keys
    THEN IF cp \notin DOMAIN stash
           THEN [display |-> disp, err |-> "KeyError"]
           ELSE IF stash[cp].deck_keys[key] # NoKey
                  THEN LET key_style == GetKeyStyle(stash[cp], key)
                       IN  IF key_style.icon = None
                             \* os.path.join(config_path, None)
                             THEN [display |-> disp, err |-> "TypeError"]
                             ELSE IF IsFile(key_style.icon)
                                    THEN [display |->
                                            [disp EXCEPT ![key] =
                                               RenderKeyImage(key_style.icon,
                                                              key_style.label)],
                                          err |-> None]
                                    ELSE [display |-> disp, err |-> "IOError"]
                  ELSE [display |-> [disp EXCEPT ![key] =
                                       RenderKeyImage(None, None)],
                        err |-> None]
    ELSE [display |-> disp, err |-> "ValueError"]

RECURSIVE UpdateKeysFrom(_, _, _, _)
\* the loop of Manager.update_keys from slot key on; r is the pass so far
UpdateKeysFrom(stash, cp, r, key) ==
  IF key >= n_keys
    THEN r
    ELSE LET one == UpdateKeyImage(stash, cp, r.display, key)
         IN  IF one.err # None
               THEN [r EXCEPT !.err = one.err]
               ELSE UpdateKeysFrom(stash, cp,
                                   [display |-> one.display, err |-> None,
                                    written |-> r.written \cup {key}],
                                   key + 1)

\* update_keys, run before the display is read: the pass shows nothing new
UpdateKeysStale(stash, cp, disp) ==
  [display |-> disp, err |-> None, written |-> Slots]

\* Manager.update_keys: the display after the pass, the error that ended it
\* (None when it ran to the end) and the slots it wrote
UpdateKeys(stash, cp, disp) ==
  UpdateKeysFrom(stash, cp, [display |-> disp, err |-> None, written |-> {}], 0)

(***************************************************************************)
(* Callbacks.  m is the Manager as the callback sees it: page_stash,       *)
(* current_page, and err, the error the callback raises (None: it returns) *)
(***************************************************************************)
\* the folder callback, switching on the press as on the release
FolderChangeOnPress(key, m) == [m EXCEPT !.current_page = key.state]

\* Parser.__folder_change_callback
FolderChangeCallback(key, m) ==
  IF key.pressed THEN m ELSE [m EXCEPT !.current_page = key.state]

\* Parser.__empty_callback
EmptyCallback(key, m) == m

\* a function of the callback source, called with (key, page, deck, parser)
UserFunction(f, key, m) ==
  CASE f.act = "noop" -> m
    [] f.act = "raise" -> [m EXCEPT !.err = f.arg]
    [] f.act = "goto" -> [m EXCEPT !.current_page = f.arg]
    [] f.act = "drop" ->
         [m EXCEPT !.page_stash =
            [n \in DOMAIN m.page_stash \ {f.arg} |-> m.page_stash[n]]]

\* Parser.__function_callback: getattr(mod, function_name), then the call
FunctionCallback(key, m) ==
  IF key.state \in DOMAIN fun_lib
    THEN UserFunction(fun_lib[key.state], key, m)
    ELSE [m EXCEPT !.err = "AttributeError"]

\* Key.on_press
KeyOnPress(key, m) ==
  CASE key.on_press_fun = "folder" -> FolderChangeCallback(key, m)
    [] key.on_press_fun = "empty" -> EmptyCallback(key, m)
    [] key.on_press_fun = "function" -> FunctionCallback(key, m)

\* Page.on_press.  For an empty slot the text of the warning is made with
\* deck_man.key_layout(), and a Manager has no key_layout
PageOnPress(page, key, m) ==
  IF page.deck_keys[key] # NoKey
    THEN KeyOnPress(page.deck_keys[key], m)
    ELSE [m EXCEPT !.err = "AttributeError"]

(***************************************************************************)
(* Manager: the key callback                                               *)
(***************************************************************************)
Ended(op, key, state, page, outcome, renders, written) ==
  [op |-> op, key |-> key, state |-> state, page |-> page,
   outcome |-> outcome, renders |-> renders, written |-> written]

\* __key_change_callback, calling update_keys before the Key's callback
KeyChangeCallbackRenderFirst(stash, cp, disp, key, state) ==
  IF cp \notin DOMAIN stash
    THEN [page_stash |-> stash, current_page |-> cp, display |-> disp,
          last |-> Ended("handle_event", key, state, cp, "KeyError", 0, {})]
    ELSE IF stash[cp].deck_keys[key] = NoKey
      THEN [page_stash |-> stash, current_page |-> cp, display |-> disp,
            last |-> Ended("handle_event", key, state, cp, "AttributeError",
                           0, {})]
      ELSE LET pressed == [stash EXCEPT ![cp].deck_keys[key].pressed = state]
               r == UpdateKeys(pressed, cp, disp)
               m == PageOnPress(pressed[cp], key,
                                [page_stash |-> pressed, current_page |-> cp,
                                 err |-> None])
           IN  IF r.err # None
                 THEN [page_stash |-> pressed, current_page |-> cp,
                       display |-> r.display,
                       last |-> Ended("handle_event", key, state, cp, r.err,
                                      1, r.written)]
                 ELSE [page_stash |-> m.page_stash,
                       current_page |-> m.current_page,
                       display |-> r.display,
                       last |-> Ended("handle_event", key, state, cp,
                                      IF m.err = None THEN "ok" ELSE m.err,
                                      1, r.written)]

\* __key_change_callback, catching what the Key's callback raises and going
\* on to update_keys
KeyChangeCallbackCatch(stash, cp, disp, key, state) ==
  IF cp \notin DOMAIN stash
    THEN [page_stash |-> stash, current_page |-> cp, display |-> disp,
          last |-> Ended("handle_event", key, state, cp, "KeyError", 0, {})]
    ELSE IF stash[cp].deck_keys[key] = NoKey
      THEN [page_stash |-> stash, current_page |-> cp, display |-> disp,
            last |-> Ended("handle_event", key, state, cp, "AttributeError",
                           0, {})]
      ELSE LET pressed == [stash EXCEPT ![cp].deck_keys[key].pressed = state]
               m == PageOnPress(pressed[cp], key,
                                [page_stash |-> pressed, current_page |-> cp,
                                 err |-> None])
               r == UpdateKeys(m.page_stash, m.current_page, disp)
           IN  [page_stash |-> m.page_stash,
                current_page |-> m.current_page,
                display |-> r.display,
                last |-> Ended("handle_event", key, state, cp,
                               IF r.err = None THEN "ok" ELSE r.err,
                               1, r.written)]

\* Manager.__key_change_callback for the Manager's own deck: the Manager and
\* the display after it, and the record of how it ended
KeyChangeCallback(stash, cp, disp, key, state) ==
  IF cp \notin DOMAIN stash
    THEN [page_stash |-> stash, current_page |-> cp, display |-> disp,
          last |-> Ended("handle_event", key, state, cp, "KeyError", 0, {})]
    ELSE IF stash[cp].deck_keys[key] = NoKey
      \* deck_keys[key].name of the debug line
      THEN [page_stash |-> stash, current_page |-> cp, display |-> disp,
            last |-> Ended("handle_event", key, state, cp, "AttributeError",
                           0, {})]
      ELSE LET pressed == [stash EXCEPT ![cp].deck_keys[key].pressed = state]
               m == PageOnPress(pressed[cp], key,
                                [page_stash |-> pressed, current_page |-> cp,
                                 err |-> None])
           IN  IF m.err # None
                 THEN [page_stash |-> m.page_stash,
                       current_page |-> m.current_page, display |-> disp,
                       last |-> Ended("handle_event", key, state, cp, m.err,
                                      0, {})]
                 ELSE LET r == UpdateKeys(m.page_stash, m.current_page, disp)
                      IN  [page_stash |-> m.page_stash,
                           current_page |-> m.current_page,
                           display |-> r.display,
                           last |-> Ended("handle_event", key, state, cp,
                                          IF r.err = None THEN "ok" ELSE r.err,
                                          1, r.written)]

(***************************************************************************)
(* Parser: the translation of one key entry                                *)
(***************************************************************************)
\* __get_callback, taking the folder key's own name for the page's
GetCallbackKeyName(key) ==
  CASE key.type = "folder" -> << "folder", key.name >>
    [] key.type = "empty" -> << "empty", None >>
    [] key.type = "function" -> << "function", key.function_config >>

\* Parser.__get_callback: the callback and the state of the key
GetCallback(key) ==
  CASE key.type = "folder" -> << "folder", key.folder.name >>
    [] key.type = "empty" -> << "empty", None >>
    [] key.type = "function" -> << "function", key.function_config >>

\* the icons of a key entry: (img_on, img_off)
KeyImages(json_key, ps) ==
  IF json_key.type = "folder"
    THEN << ps.folder_img, ps.folder_img >>
    ELSE IF "img" \in DOMAIN json_key
           THEN << json_key.img, json_key.img >>
           ELSE << IF "img_on" \in DOMAIN json_key
                     THEN json_key.img_on ELSE ps.default_img,
                   IF "img_off" \in DOMAIN json_key
                     THEN json_key.img_off ELSE ps.default_img >>

\* the labels of a key entry: (label_on, label_off)
KeyLabels(json_key, ps) ==
  IF "label" \in DOMAIN json_key
    THEN << json_key.label, json_key.label >>
    ELSE << IF "label_on" \in DOMAIN json_key
              THEN json_key.label_on ELSE ps.default_label,
            IF "label_off" \in DOMAIN json_key
              THEN json_key.label_off ELSE ps.default_label >>

\* the Key that Parser.__populate_pages makes of a key entry
MakeKey(json_key, ps) ==
  LET img == KeyImages(json_key, ps)
      label == KeyLabels(json_key, ps)
      cb == GetCallback(json_key)
  IN  Key(json_key.name, img[1], img[2], label[1], label[2], cb[2], cb[1])

\* the "up" Key, naming its own page instead of the parent
UpKeySelf(page, parent, ps) ==
  Key(page.name \o "0", ps.folder_up_img, ps.folder_up_img, "up", "up",
      page.name, "folder")

\* the "up" Key that Parser.__populate_pages puts on a page with a parent
UpKey(page, parent, ps) ==
  Key(page.name \o "0", ps.folder_up_img, ps.folder_up_img, "up", "up",
      parent, "folder")

(***************************************************************************)
(* The program                                                             *)
(***************************************************************************)
\* nothing returned yet
NoStyle ==
  [op |-> "none", key |-> 0,
   style |-> [name |-> None, icon |-> None, label |-> None]]

Frame(page, parent) ==
  [page |-> page, parent |-> parent, i |-> 0, phase |-> "new"]

Top == stack[Len(stack)]

SetTop(f) == [stack EXCEPT ![Len(stack)] = f]

\* index, with the entries of every page counted from slot 0
IndexNoUp(f) == f.i

\* the slot of entry i of the page of frame f
Index(f) == IF f.parent = None THEN f.i ELSE f.i + 1

Held == Cardinality({i \in Slots : phys[i]})

InitWith(cfgs, libs) ==
  /\ config \in cfgs
  /\ fun_lib \in libs
  /\ pc = "start"
  /\ stack = << >>
  /\ parser = [default_img |-> None, default_label |-> None,
               folder_up_img |-> None, folder_img |-> None]
  /\ page_stash = << >>
  /\ current_page = None
  /\ key_callback = FALSE
  /\ display = [i \in Slots |-> NoImage]
  /\ phys = [i \in Slots |-> FALSE]
  /\ last = Ended("none", 0, FALSE, None, "ok", 0, {})
  /\ returned = NoStyle

Init == InitWith({Configs[c] : c \in DOMAIN Configs}, {libNoop})

\* Manager.__init__, called first by Parser.__init__
ManagerInit ==
  /\ pc = "start"
  /\ LET stash == ("main" :> Page("Default Page", key_layout))
         r == UpdateKeys(stash, "main", display)
     IN  /\ page_stash' = stash
         /\ current_page' = "main"
         /\ display' = r.display
         /\ last' = Ended("Manager.__init__", 0, FALSE, "main",
                          IF r.err = None THEN "ok" ELSE r.err, 1, r.written)
  /\ key_callback' = TRUE
  /\ pc' = "load"
  /\ UNCHANGED << returned, config, fun_lib, stack, parser, phys >>

\* Parser.__init__ from json.load to the call of __populate_pages
LoadConfig ==
  /\ pc = "load"
  /\ LET keys == DOMAIN config
     IN  IF {"page", "folder_up_img", "folder_img"} \subseteq keys
           THEN IF "default_img" \in keys /\ "default_keys" \notin keys
                  \* json_obj["default_keys"]
                  THEN /\ pc' = "failed"
                       /\ last' = Ended("Parser.__init__", 0, FALSE,
                                        current_page, "KeyError", 0, {})
                       /\ UNCHANGED << stack, parser >>
                  ELSE /\ parser' =
                            [default_img |->
                               IF "default_img" \in keys
                                 THEN config.default_keys ELSE STANDARD_ICON,
                             default_label |->
                               IF "default_label" \in keys
                                 THEN config.default_label ELSE STANDARD_LABEL,
                             folder_up_img |-> config.folder_up_img,
                             folder_img |-> config.folder_img]
                       /\ stack' = << Frame([name |-> "main",
                                             keys |-> config.page.keys],
                                            None) >>
                       /\ pc' = "populate"
                       /\ last' = Ended("Parser.__init__", 0, FALSE,
                                        current_page, "ok", 0, {})
           ELSE /\ pc' = "done"
                /\ last' = Ended("Parser.__init__", 0, FALSE, current_page,
                                 "ok", 0, {})
                /\ UNCHANGED << stack, parser >>
  /\ UNCHANGED << returned, config, fun_lib, page_stash, current_page, key_callback,
                  display, phys >>

Populating ==
  Ended("Parser.__init__", 0, FALSE, current_page, "ok", 0, {})

\* Parser.__populate_pages: the new Page is put in page_stash
PopulateNew ==
  /\ pc = "populate" /\ Top.phase = "new"
  /\ page_stash' =
       (Top.page.name :> Page(Top.page.name, key_layout)) @@ page_stash
  /\ stack' = SetTop([Top EXCEPT !.phase =
                        IF Top.parent # None THEN "up" ELSE "keys"])
  /\ last' = Populating
  /\ UNCHANGED << returned, config, fun_lib, pc, parser, current_page, key_callback,
                  display, phys >>

\* Parser.__populate_pages: the "up" key of a page with a parent
PopulateUp ==
  /\ pc = "populate" /\ Top.phase = "up"
  /\ page_stash' = [page_stash EXCEPT ![Top.page.name].deck_keys[0] =
                      UpKey(Top.page, Top.parent, parser)]
  /\ stack' = SetTop([Top EXCEPT !.phase = "keys"])
  /\ last' = Populating
  /\ UNCHANGED << returned, config, fun_lib, pc, parser, current_page, key_callback,
                  display, phys >>

\* Parser.__populate_pages: a folder entry that fits, the recursive call
PopulateFolder ==
  /\ pc = "populate" /\ Top.phase = "keys" /\ Top.i < Len(Top.page.keys)
  /\ Index(Top) < n_keys
  /\ Top.page.keys[Top.i + 1].type = "folder"
  /\ stack' = Append(SetTop([Top EXCEPT !.phase = "assign"]),
                     Frame(Top.page.keys[Top.i + 1].folder, Top.page.name))
  /\ last' = Populating
  /\ UNCHANGED << returned, config, fun_lib, pc, parser, page_stash, current_page,
                  key_callback, display, phys >>

\* Parser.__populate_pages: the Key of an entry that fits is put in its slot
PopulateKey ==
  /\ pc = "populate" /\ Top.i < Len(Top.page.keys)
  /\ Index(Top) < n_keys
  /\ \/ Top.phase = "assign"
     \/ Top.phase = "keys" /\ Top.page.keys[Top.i + 1].type # "folder"
  /\ page_stash' = [page_stash EXCEPT ![Top.page.name].deck_keys[Index(Top)] =
                      MakeKey(Top.page.keys[Top.i + 1], parser)]
  /\ stack' = SetTop([Top EXCEPT !.phase = "keys", !.i = Top.i + 1])
  /\ last' = Populating
  /\ UNCHANGED << returned, config, fun_lib, pc, parser, current_page, key_callback,
                  display, phys >>

\* Parser.__populate_pages: an entry beyond the board is logged
PopulateDrop ==
  /\ pc = "populate" /\ Top.phase = "keys" /\ Top.i < Len(Top.page.keys)
  /\ ~(Index(Top) < n_keys)
  /\ stack' = SetTop([Top EXCEPT !.i = Top.i + 1])
  /\ last' = Populating
  /\ UNCHANGED << returned, config, fun_lib, pc, parser, page_stash, current_page,
                  key_callback, display, phys >>

\* Parser.__populate_pages returns
PopulateReturn ==
  /\ pc = "populate" /\ Top.phase = "keys" /\ Top.i = Len(Top.page.keys)
  /\ stack' = SubSeq(stack, 1, Len(stack) - 1)
  /\ pc' = IF Len(stack) = 1 THEN "set_page" ELSE "populate"
  /\ last' = Populating
  /\ UNCHANGED << returned, config, fun_lib, parser, page_stash, current_page,
                  key_callback, display, phys >>

\* Parser.__init__: current_page = json_obj["page"]["name"]
SetPage ==
  /\ pc = "set_page"
  /\ current_page' = "main"
  /\ pc' = "render"
  /\ last' = Ended("Parser.__init__", 0, FALSE, "main", "ok", 0, {})
  /\ UNCHANGED << returned, config, fun_lib, stack, parser, page_stash, key_callback,
                  display, phys >>

\* Parser.__init__: the closing update_keys
FinalRender ==
  /\ pc = "render"
  /\ LET r == UpdateKeys(page_stash, current_page, display)
     IN  /\ display' = r.display
         /\ pc' = IF r.err = None THEN "done" ELSE "failed"
         /\ last' = Ended("Parser.__init__", 0, FALSE, current_page,
                          IF r.err = None THEN "ok" ELSE r.err, 1, r.written)
  /\ UNCHANGED << returned, config, fun_lib, stack, parser, page_stash, current_page,
                  key_callback, phys >>

\* the device reports that key went down (state) or up, and calls the
\* callback it holds
KeyChange ==
  /\ key_callback
  /\ \E key \in Slots :
       LET state == ~phys[key]
           r == KeyChangeCallback(page_stash, current_page, display, key, state)
       IN  /\ state => Held < MaxHeld
           /\ phys' = [phys EXCEPT ![key] = state]
           /\ page_stash' = r.page_stash
           /\ current_page' = r.current_page
           /\ display' = r.display
           /\ last' = r.last
  /\ UNCHANGED << returned, config, fun_lib, pc, stack, parser, key_callback >>

Next ==
  \/ ManagerInit
  \/ LoadConfig
  \/ PopulateNew
  \/ PopulateUp
  \/ PopulateFolder
  \/ PopulateKey
  \/ PopulateDrop
  \/ PopulateReturn
  \/ SetPage
  \/ FinalRender
  \/ KeyChange

Spec == Init /\ [][Next]_vars

(***************************************************************************)
(* What the claims speak of                                                *)
(***************************************************************************)
\* the key at slot i of the current page
CurrentKey(i) == page_stash[current_page].deck_keys[i]

\* the device reports a change of key i in this step
Reported(i) == phys'[i] # phys[i]

\* the image that slot i of the current page calls for
Expected(i) ==
  LET k == CurrentKey(i)
  IN  IF k = NoKey
        THEN BlankImage
        ELSE [icon |-> IF k.pressed THEN k.icon_pressed ELSE k.icon_released,
              label |-> IF k.pressed THEN k.label_pressed ELSE k.label_released]

\* every key of the device shows what the current page calls for
Consistent ==
  /\ current_page \in DOMAIN page_stash
  /\ \A i \in Slots : display[i] = Expected(i)

\* the page of the current page's slot j can be drawn
Draws(j) ==
  \/ CurrentKey(j) = NoKey
  \/ /\ Expected(j).icon # None
     /\ Expected(j).icon \in ExistingFiles

\* slot k is the first slot a pass over the current page cannot draw, and
\* it is a key whose icon names a file that does not exist
FirstMissing(k) ==
  /\ \A j \in Slots : j < k => Draws(j)
  /\ CurrentKey(k) # NoKey
  /\ Expected(k).icon # None
  /\ Expected(k).icon \notin ExistingFiles

(***************************************************************************)
(* C1                                                                      *)
(***************************************************************************)
\* C1: an event for a folder key of the current page leaves current_page
\* unchanged when it is a press, and sets current_page to the key's state
\* when it is a release
C1_FolderOnRelease ==
  [][\A i \in Slots :
       ( /\ Reported(i)
         /\ current_page \in DOMAIN page_stash
         /\ CurrentKey(i) # NoKey
         /\ CurrentKey(i).on_press_fun = "folder" )
       => IF phys'[i]
            THEN current_page' = current_page
            ELSE current_page' = CurrentKey(i).state]_vars

\* a folder key of the page that was current has been released and the
\* Manager stands on the page it names, another page
C1_Witness ==
  /\ last.op = "handle_event" /\ ~last.state /\ last.outcome = "ok"
  /\ last.page \in DOMAIN page_stash
  /\ last.page # current_page
  /\ page_stash[last.page].deck_keys[last.key] # NoKey
  /\ page_stash[last.page].deck_keys[last.key].on_press_fun = "folder"
  /\ page_stash[last.page].deck_keys[last.key].state = current_page

(***************************************************************************)
(* C2                                                                      *)
(***************************************************************************)
\* C2: after any handle_event the render pass has run exactly once, has
\* written every slot, and the display shows the page that is current after
\* the callback
C2_RenderOncePerEvent ==
  last.op = "handle_event"
  => /\ last.renders = 1
     /\ last.written = Slots
     /\ Consistent

C4_MissingSlotNoop ==
  [][\A i \in Slots :
       ( /\ Reported(i)
         /\ current_page \in DOMAIN page_stash
         /\ CurrentKey(i) = NoKey )
       => /\ last'.outcome = "ok"
          /\ current_page' = current_page
          /\ page_stash' = page_stash]_vars

KeyChangeLater == pc \in {"done", "failed"} /\ KeyChange

NextQuiet ==
  \/ ManagerInit
  \/ LoadConfig
  \/ PopulateNew
  \/ PopulateUp
  \/ PopulateFolder
  \/ PopulateKey
  \/ PopulateDrop
  \/ PopulateReturn
  \/ SetPage
  \/ FinalRender
  \/ KeyChangeLater

\* the runs of the program in which no key is touched during start-up
SpecQuiet == Init /\ [][NextQuiet]_vars

\* C6: no Key of any page is pressed while the last report of the device for
\* its slot is a release (or there was none)
C6_PressedIsLastReport ==
  \A p \in DOMAIN page_stash : \A i \in Slots :
    ( /\ page_stash[p].deck_keys[i] # NoKey
      /\ page_stash[p].deck_keys[i].pressed )
    => phys[i]

(***************************************************************************)
(* C7                                                                      *)
(***************************************************************************)
\* C7: a render pass that comes to a key whose icon names a file that does
\* not exist ends with that error, which leaves the operation that ran the
\* pass, and has written no slot from that one on
C7_MissingIconRaises ==
  ( last.renders = 1 /\ current_page \in DOMAIN page_stash )
  => \A k \in Slots :
       FirstMissing(k)
       => /\ last.outcome = "IOError"
          /\ last.written = {j \in Slots : j < k}

\* a handle_event has ended with the error of a missing icon file, after
\* the pass wrote a slot and before it came to the last one
C7_Witness ==
  /\ last.op = "handle_event" /\ last.outcome = "IOError"
  /\ current_page \in DOMAIN page_stash
  /\ \E k \in Slots :
       /\ FirstMissing(k)
       /\ 0 < k /\ k < n_keys - 1
       /\ display[k] # Expected(k)

(***************************************************************************)
(* C8                                                                      *)
(***************************************************************************)
\* callback sources whose function removes a page or moves the Manager
libDropSub == ("fn" :> [act |-> "drop", arg |-> "sub"])

libGotoNowhere == ("fn" :> [act |-> "goto", arg |-> "nowhere"])

\* a folder, a function key, and more entries than the root has slots
cfgUser ==
  Config(<< Folder("F", "sub", << leafA >>), funOk, leafA, leafToggle, leafA,
            leafA >>)

\* a callback source whose function raises
libRaise == ("fn" :> [act |-> "raise", arg |-> "ValueError"])

InitUser == InitWith({cfgUser}, {libDropSub, libGotoNowhere, libRaise})

\* the program with callback sources that change the Manager's pages
SpecUser == InitUser /\ [][Next]_vars

\* C8: when the release of a folder key names a page that is not in
\* page_stash, and whenever a callback leaves current_page on such a name,
\* that same handle_event ends with the error of the missing page, and
\* current_page is the name asked for
C8_SwitchToMissingPageRaises ==
  [][\A i \in Slots :
       ( Reported(i) /\ current_page \in DOMAIN page_stash )
       => /\ ( /\ CurrentKey(i) # NoKey
               /\ CurrentKey(i).on_press_fun = "folder"
               /\ ~phys'[i]
               /\ CurrentKey(i).state \notin DOMAIN page_stash )
             => /\ last'.op = "handle_event"
                /\ last'.outcome = "KeyError"
                /\ current_page' = CurrentKey(i).state
          /\ current_page' \notin DOMAIN page_stash'
             => /\ last'.op = "handle_event"
                /\ last'.outcome = "KeyError"]_vars

\* the release of a folder key whose page a callback had removed has ended
\* with the error, the Manager standing on the missing name
C8_Witness ==
  /\ last.op = "handle_event" /\ ~last.state /\ last.outcome = "KeyError"
  /\ last.page \in DOMAIN page_stash
  /\ page_stash[last.page].deck_keys[last.key] # NoKey
  /\ page_stash[last.page].deck_keys[last.key].on_press_fun = "folder"
  /\ current_page = page_stash[last.page].deck_keys[last.key].state
  /\ current_page \notin DOMAIN page_stash

(***************************************************************************)
(* C9                                                                      *)
(***************************************************************************)
\* C9: once the device holds the key callback, page_stash and current_page
\* change only in a handle_event
C9_OnlyHandleEventMutates ==
  [][( /\ key_callback
       /\ \/ page_stash' # page_stash
          \/ current_page' # current_page )
     => last'.op = "handle_event"]_vars

(***************************************************************************)
(* C10                                                                     *)
(***************************************************************************)
RECURSIVE Paths(_)
\* the page nodes of the tree under page, each as the entry numbers that
\* lead to it
Paths(page) ==
  {<< >>} \cup
  UNION { { << i >> \o q : q \in Paths(page.keys[i].folder) } :
          i \in {j \in DOMAIN page.keys : page.keys[j].type = "folder"} }

RECURSIVE Node(_, _)
Node(page, path) ==
  IF path = << >> THEN page ELSE Node(page.keys[Head(path)].folder, Tail(path))

\* the page node at path, and the name the configuration gives it
CfgNode(path) == Node(config.page, path)

\* the name under which the Builder stores the page node at path
StoredName(path) == IF path = << >> THEN "main" ELSE CfgNode(path).name

ParentPath(path) == SubSeq(path, 1, Len(path) - 1)

\* the page names of the tree are pairwise distinct
DistinctNames ==
  \A p, q \in Paths(config.page) : CfgNode(p).name = CfgNode(q).name => p = q

\* every key list fits its page
KeysFit ==
  \A p \in Paths(config.page) :
    Len(CfgNode(p).keys) <= (IF p = << >> THEN n_keys ELSE n_keys - 1)

\* __populate_pages has returned to Parser.__init__
Populated ==
  /\ pc \in {"set_page", "render", "done"}
  /\ {"page", "folder_up_img", "folder_img"} \subseteq DOMAIN config

\* the Key at slot i of the stored page is the one made of the entry
MadeOf(name, i, entry) ==
  /\ page_stash[name].deck_keys[i] # NoKey
  /\ page_stash[name].deck_keys[i].name = entry.name
  /\ page_stash[name].deck_keys[i].on_press_fun = entry.type

\* one Page per page node; each holds its entries in order, from slot 0 on
\* the root and from slot 1, behind an "up" key to the parent, elsewhere
Materialized ==
  /\ Cardinality(DOMAIN page_stash) = Cardinality(Paths(config.page))
  /\ \A p \in Paths(config.page) :
       LET name == StoredName(p)
           keys == CfgNode(p).keys
       IN  /\ name \in DOMAIN page_stash
           /\ IF p = << >>
                THEN \A i \in DOMAIN keys : MadeOf(name, i - 1, keys[i])
                ELSE /\ page_stash[name].deck_keys[0] # NoKey
                     /\ page_stash[name].deck_keys[0].on_press_fun = "folder"
                     /\ page_stash[name].deck_keys[0].label_released = "up"
                     /\ page_stash[name].deck_keys[0].state =
                          StoredName(ParentPath(p))
                     /\ \A i \in DOMAIN keys : MadeOf(name, i, keys[i])

\* C10 as stated: for a tree of pairwise distinct page names whose key lists
\* fit, the Builder leaves one Page per page node, the root's entries from
\* slot 0 on, every other page's behind an "up" key that names its parent
C10_OnePagePerNode ==
  ( Populated /\ DistinctNames /\ KeysFit ) => Materialized

\* C10 amended: the same, for a tree in which moreover no folder page is
\* named "main", the name the Builder gives the root
C10_OnePagePerNodeNoMain ==
  ( /\ Populated /\ DistinctNames /\ KeysFit
    /\ \A p \in Paths(config.page) : p # << >> => CfgNode(p).name # "main" )
  => Materialized

\* the Builder has finished on a tree of three page nodes, two levels deep
C10_Witness ==
  /\ pc = "done" /\ DistinctNames /\ KeysFit
  /\ \E p \in Paths(config.page) :
       /\ Len(p) = 2
       /\ CfgNode(p).name # "main"
       /\ CfgNode(ParentPath(p)).name # "main"
       /\ StoredName(p) \in DOMAIN page_stash
       /\ page_stash[StoredName(p)].deck_keys[0] # NoKey
       /\ page_stash[StoredName(p)].deck_keys[0].state =
            StoredName(ParentPath(p))

(***************************************************************************)
(* C11                                                                     *)
(***************************************************************************)
\* entry i (counted from 1) of the page node at path p goes to this slot
SlotOf(p, i) == IF p = << >> THEN i - 1 ELSE i

RECURSIVE BuiltPathsOf(_, _)
\* the page nodes under page that the Builder comes to: those behind folder
\* entries that fit their page; first tells the root from a page with a parent
BuiltPathsOf(page, first) ==
  {<< >>} \cup
  UNION { { << i >> \o q : q \in BuiltPathsOf(page.keys[i].folder, FALSE) } :
          i \in {j \in DOMAIN page.keys :
                   /\ page.keys[j].type = "folder"
                   /\ (IF first THEN j - 1 ELSE j) < n_keys} }

BuiltPaths == BuiltPathsOf(config.page, TRUE)

\* the page nodes the Builder comes to are stored under distinct names
BuiltDistinct ==
  \A p, q \in BuiltPaths : StoredName(p) = StoredName(q) => p = q

\* some page node the Builder comes to lists more entries than it has slots
OverFull(p) == SlotOf(p, Len(CfgNode(p).keys)) >= n_keys

\* C11: once the Builder has gone through a tree (of distinct page names) with
\* over-full page nodes, page construction has not failed; every page has its
\* n_keys slots and no other; every entry that fits is in its slot, in
\* order, behind the "up" key on a page with a parent; and no Page has been
\* made for a folder entry that was dropped
C11_ExcessDropped ==
  ( Populated /\ BuiltDistinct )
  => /\ DOMAIN page_stash = {StoredName(p) : p \in BuiltPaths}
     /\ \A p \in BuiltPaths :
          LET name == StoredName(p)
              keys == CfgNode(p).keys
          IN  /\ DOMAIN page_stash[name].deck_keys = Slots
              /\ \A i \in DOMAIN keys :
                   SlotOf(p, i) < n_keys => MadeOf(name, SlotOf(p, i), keys[i])
              /\ \A s \in Slots :
                   s > SlotOf(p, Len(keys)) => page_stash[name].deck_keys[s] = NoKey
              /\ p # << >> =>
                   /\ page_stash[name].deck_keys[0] # NoKey
                   /\ page_stash[name].deck_keys[0].label_released = "up"

\* the Builder has finished on a tree whose root and whose folder page both
\* list more entries than fit, a folder entry among those dropped
C11_Witness ==
  /\ pc = "done" /\ BuiltDistinct
  /\ OverFull(<< >>)
  /\ \E p \in BuiltPaths : p # << >> /\ OverFull(p)
  /\ BuiltPaths # Paths(config.page)
  /\ \A s \in Slots : page_stash["main"].deck_keys[s] # NoKey

(***************************************************************************)
(* C12                                                                     *)
(***************************************************************************)
\* the default icon the configuration asks for
ConfiguredDefaultImg ==
  IF "default_img" \in DOMAIN config THEN config.default_img ELSE STANDARD_ICON

\* the Key the Builder stored for entry i of the page node at path p
EntryKey(p, i) == page_stash[StoredName(p)].deck_keys[SlotOf(p, i)]

\* the entries of the built page nodes that fit and are not folders, as
\* (path, entry number)
LeafEntries ==
  { pi \in BuiltPaths \X (1 .. n_keys) :
      /\ pi[2] \in DOMAIN CfgNode(pi[1]).keys
      /\ SlotOf(pi[1], pi[2]) < n_keys
      /\ CfgNode(pi[1]).keys[pi[2]].type # "folder" }

\* C12: of a key entry with img and neither img_on nor img_off the Builder
\* makes a Key whose two icons are that img; of a key entry with none of the
\* three it makes a Key whose two icons are the configuration's default_img
\* when it has one, else the built-in default
C12_IconDefaulting ==
  ( Populated /\ BuiltDistinct )
  => \A pi \in LeafEntries :
       LET e == CfgNode(pi[1]).keys[pi[2]]
           k == EntryKey(pi[1], pi[2])
       IN  /\ k # NoKey
           /\ ( "img" \in DOMAIN e /\ {"img_on", "img_off"} \cap DOMAIN e = {} )
              => ( k.icon_pressed = e.img /\ k.icon_released = e.img )
           /\ {"img", "img_on", "img_off"} \cap DOMAIN e = {}
              => ( /\ k.icon_pressed = ConfiguredDefaultImg
                   /\ k.icon_released = ConfiguredDefaultImg )

(***************************************************************************)
(* Page used directly: a Manager's page "main" given one Key by hand, and  *)
(* the methods of Page called on it                                        *)
(***************************************************************************)
\* the Keys put on the page: every icon and label set or None
HandKeys ==
  { Key("k", ip, ir, lp, lr, cb[2], cb[1]) :
      ip \in {None, "b.png"}, ir \in {None, "a.png"},
      lp \in {None, "on"}, lr \in {None, "off"},
      cb \in { << "folder", "nowhere" >>, << "empty", None >>,
               << "function", "fn" >> } }

\* Manager.__init__ has run, and page_stash["main"].deck_keys[s] = Key(...)
InitPage ==
  /\ config = Config(<< >>)
  /\ fun_lib = libGotoNowhere
  /\ pc = "done"
  /\ stack = << >>
  /\ parser = [default_img |-> None, default_label |-> None,
               folder_up_img |-> None, folder_img |-> None]
  /\ \E s \in Slots : \E k \in HandKeys :
       page_stash = ("main" :> [Page("Default Page", key_layout)
                                  EXCEPT !.deck_keys[s] = k])
  /\ current_page = "main"
  /\ key_callback = TRUE
  /\ display = [i \in Slots |-> BlankImage]
  /\ phys = [i \in Slots |-> FALSE]
  /\ last = Ended("Manager.__init__", 0, FALSE, "main", "ok", 1, Slots)
  /\ returned = NoStyle

\* page_stash["main"].get_key_style(key)
GetKeyStyleCall ==
  /\ \E key \in Slots :
       returned' = [op |-> "get_key_style", key |-> key,
                    style |-> GetKeyStyle(page_stash["main"], key)]
  /\ UNCHANGED << config, fun_lib, pc, stack, parser, page_stash,
                  current_page, key_callback, display, phys, last >>

\* page_stash["main"].deck_keys[key].pressed = state
SetPressed ==
  /\ \E key \in Slots : \E state \in BOOLEAN :
       /\ page_stash["main"].deck_keys[key] # NoKey
       /\ page_stash' =
            [page_stash EXCEPT !["main"].deck_keys[key].pressed = state]
       /\ last' = Ended("pressed", key, state, "main", "ok", 0, {})
  /\ UNCHANGED << config, fun_lib, pc, stack, parser, current_page,
                  key_callback, display, phys, returned >>

\* page_stash["main"].on_press(key, manager)
OnPressCall ==
  /\ \E key \in Slots :
       LET m == PageOnPress(page_stash["main"], key,
                            [page_stash |-> page_stash,
                             current_page |-> current_page, err |-> None])
       IN  /\ page_stash' = m.page_stash
           /\ current_page' = m.current_page
           /\ last' = Ended("Page.on_press", key, FALSE, "main",
                            IF m.err = None THEN "ok" ELSE m.err, 0, {})
  /\ UNCHANGED << config, fun_lib, pc, stack, parser, key_callback, display,
                  phys, returned >>

NextPage ==
  \/ GetKeyStyleCall
  \/ SetPressed
  \/ OnPressCall

SpecPage == InitPage /\ [][NextPage]_vars

\* the Key at slot i of the page
PageKey(i) == page_stash["main"].deck_keys[i]

(***************************************************************************)
(* C13                                                                     *)
(***************************************************************************)
\* C13: get_key_style(i) for a slot that holds a Key returns the Key's name
\* with icon_pressed and label_pressed when the Key is pressed and with
\* icon_released and label_released when it is not, whichever of them are
\* None
C13_StyleFollowsPressed ==
  [][\A i \in Slots :
       ( returned' # returned /\ returned'.key = i /\ PageKey(i) # NoKey )
       => /\ returned'.op = "get_key_style"
          /\ returned'.style.name = PageKey(i).name
          /\ PageKey(i).pressed
             => /\ returned'.style.icon = PageKey(i).icon_pressed
                /\ returned'.style.label = PageKey(i).label_pressed
          /\ ~PageKey(i).pressed
             => /\ returned'.style.icon = PageKey(i).icon_released
                /\ returned'.style.label = PageKey(i).label_released]_vars

\* get_key_style has returned the pressed look of a pressed Key whose
\* icon_pressed is None, whose label_pressed is set and whose released look
\* differs in both
C13_Witness ==
  /\ returned.op = "get_key_style"
  /\ PageKey(returned.key) # NoKey
  /\ PageKey(returned.key).pressed
  /\ PageKey(returned.key).icon_pressed = None
  /\ PageKey(returned.key).icon_released # None
  /\ PageKey(returned.key).label_pressed # None
  /\ PageKey(returned.key).label_released = None
  /\ returned.style.icon = None
  /\ returned.style.label = PageKey(returned.key).label_pressed

(***************************************************************************)
(* C14                                                                     *)
(***************************************************************************)
\* C14: for an empty slot get_key_style returns name, icon and label None,
\* and on_press changes no page, no Key and not current_page
C14_EmptySlotInert ==
  [][\A i \in Slots :
       PageKey(i) = NoKey
       => /\ ( returned' # returned /\ returned'.key = i )
             => returned'.style = [name |-> None, icon |-> None, label |-> None]
          /\ ( last'.op = "Page.on_press" /\ last'.key = i )
             => /\ page_stash' = page_stash
                /\ current_page' = current_page]_vars

\* on_press has been called for an empty slot of a page whose Key is
\* pressed, after get_key_style returned the null triple for an empty slot
C14_Witness ==
  /\ last.op = "Page.on_press"
  /\ PageKey(last.key) = NoKey
  /\ returned.op = "get_key_style"
  /\ PageKey(returned.key) = NoKey
  /\ returned.style.name = None
  /\ \E i \in Slots : PageKey(i) # NoKey /\ PageKey(i).pressed

(***************************************************************************)
(* C15                                                                     *)
(***************************************************************************)
\* C15: every Page of page_stash has exactly rows * cols slots, the number
\* of keys of the device
C15_SlotCountConstant ==
  \A p \in DOMAIN page_stash :
    /\ DOMAIN page_stash[p].deck_keys = Slots
    /\ Cardinality(DOMAIN page_stash[p].deck_keys) = key_layout[1] * key_layout[2]

\* after a load that dropped entries, a key event has been handled on a
\* folder page all of whose slots hold Keys
C15_Witness ==
  /\ pc = "done" /\ last.op = "handle_event" /\ last.outcome = "ok"
  /\ OverFull(<< >>)
  /\ current_page \in DOMAIN page_stash /\ current_page # "main"
  /\ \A s \in Slots : CurrentKey(s) # NoKey

(***************************************************************************)
(* C16                                                                     *)
(***************************************************************************)
\* C16: a render pass that comes to a Key whose icon for its pressed state
\* is None does not end there: it writes for that slot the blank canvas
\* with the Key's label
C16_NullIconRenders ==
  ( last.renders = 1 /\ current_page \in DOMAIN page_stash )
  => \A k \in Slots :
       ( /\ \A j \in Slots : j < k => Draws(j)
         /\ CurrentKey(k) # NoKey
         /\ Expected(k).icon = None )
       => /\ k \in last.written
          /\ display[k] = RenderKeyImage(None, Expected(k).label)

(***************************************************************************)
(* C17                                                                     *)
(***************************************************************************)
\* the callback of Key k raises: the function it names is not in the
\* callback source, or is one that raises
Raises(k) ==
  /\ k.on_press_fun = "function"
  /\ \/ k.state \notin DOMAIN fun_lib
     \/ fun_lib[k.state].act = "raise"

\* the error the callback of Key k raises
RaisedBy(k) ==
  IF k.state \notin DOMAIN fun_lib
    THEN "AttributeError" ELSE fun_lib[k.state].arg

\* C17: when the callback of the Key of a reported event raises, that
\* handle_event ends with the callback's error, no render pass has run and
\* the display is as before, and the Key's pressed flag is the state of the
\* event
C17_CallbackErrorPropagates ==
  [][\A i \in Slots :
       ( /\ Reported(i)
         /\ current_page \in DOMAIN page_stash
         /\ CurrentKey(i) # NoKey
         /\ Raises(CurrentKey(i)) )
       => /\ last'.op = "handle_event"
          /\ last'.outcome = RaisedBy(CurrentKey(i))
          /\ last'.renders = 0
          /\ display' = display
          /\ current_page' = current_page
          /\ page_stash'[current_page].deck_keys[i].pressed = phys'[i]]_vars

\* the press of a function key has ended with the error its function
\* raised; the Key is pressed and the display still shows it released
C17_Witness ==
  /\ pc = "done"
  /\ last.op = "handle_event" /\ last.state /\ last.outcome = "ValueError"
  /\ last.renders = 0
  /\ current_page \in DOMAIN page_stash
  /\ CurrentKey(last.key) # NoKey
  /\ CurrentKey(last.key).on_press_fun = "function"
  /\ CurrentKey(last.key).pressed
  /\ display[last.key].icon = CurrentKey(last.key).icon_released
  /\ CurrentKey(last.key).icon_released # CurrentKey(last.key).icon_pressed

(***************************************************************************)
(* C18                                                                     *)
(***************************************************************************)
\* the value of field f of entry e, or else of field g, or else d
Tiers(e, f, g, d) ==
  IF f \in DOMAIN e THEN e[f] ELSE IF g \in DOMAIN e THEN e[g] ELSE d

\* C18: each look of a Key is the entry's value for that state (img_on,
\* img_off, label_on, label_off), or else its single value (img, label), or
\* else the Parser's default
C18_PerStateFirst ==
  ( Populated /\ BuiltDistinct )
  => \A pi \in LeafEntries :
       LET e == CfgNode(pi[1]).keys[pi[2]]
           k == EntryKey(pi[1], pi[2])
       IN  /\ k # NoKey
           /\ k.icon_pressed = Tiers(e, "img_on", "img", parser.default_img)
           /\ k.icon_released = Tiers(e, "img_off", "img", parser.default_img)
           /\ k.label_pressed =
                Tiers(e, "label_on", "label", parser.default_label)
           /\ k.label_released =
                Tiers(e, "label_off", "label", parser.default_label)

(***************************************************************************)
(* C19                                                                     *)
(***************************************************************************)
\* the Key at slot i of page name is a folder key
FolderKey(name, i) ==
  /\ page_stash[name].deck_keys[i] # NoKey
  /\ page_stash[name].deck_keys[i].on_press_fun = "folder"

\* the Key at slot i of page name is a folder key that leads down to a
\* sub-page: any folder key but the "up" key, which is at slot 0 of a page
\* other than the root
DownKey(name, i) == FolderKey(name, i) /\ ~(name # "main" /\ i = 0)

\* where the key at slot 0 of page name leads
UpTarget(name) == page_stash[name].deck_keys[0].state

RECURSIVE ReachesMain(_, _)
\* releasing slot 0 at most n times leads from page name to "main"
ReachesMain(name, n) ==
  \/ name = "main"
  \/ /\ n > 0
     /\ name \in DOMAIN page_stash
     /\ FolderKey(name, 0)
     /\ ReachesMain(UpTarget(name), n - 1)

\* on a store the Builder has made: the release of a folder key that leads
\* down from page P has moved the Manager to a page whose slot 0 leads back
\* to P; the release of slot 0 of a sub-page has moved it where that key
\* leads; every folder key of every page leads to a page whose slot 0 leads
\* back; and slot 0 leads from every page to "main" in finitely many
\* releases
RoundTrip ==
  /\ current_page \in DOMAIN page_stash
  /\ \A P \in DOMAIN page_stash :
       /\ ReachesMain(P, Cardinality(DOMAIN page_stash))
       /\ \A i \in Slots :
            DownKey(P, i)
            => LET S == page_stash[P].deck_keys[i].state
               IN  /\ S \in DOMAIN page_stash
                   /\ FolderKey(S, 0)
                   /\ UpTarget(S) = P
  /\ ( /\ last.op = "handle_event" /\ ~last.state
       /\ last.page \in DOMAIN page_stash
       /\ FolderKey(last.page, last.key) )
     => /\ current_page = page_stash[last.page].deck_keys[last.key].state
        /\ DownKey(last.page, last.key) => UpTarget(current_page) = last.page

\* C19 as stated: on every store the Builder has made, a folder key and then
\* slot 0 of the page it leads to bring the Manager back to the page it was
\* on, and slot 0 leads from every page to "main"
C19_RoundTrip == Populated => RoundTrip

\* C19 amended: the same, on the store made of a tree of pairwise distinct
\* page names none of whose folder pages is named "main"
C19_RoundTripDistinct ==
  ( /\ Populated /\ DistinctNames
    /\ \A p \in Paths(config.page) : p # << >> => CfgNode(p).name # "main" )
  => RoundTrip

\* the release of slot 0 of a page two folders down has brought the Manager
\* back to the page one folder down, from which it had come
C19_Witness ==
  /\ pc = "done" /\ DistinctNames
  /\ last.op = "handle_event" /\ ~last.state /\ last.key = 0
  /\ last.page \in DOMAIN page_stash
  /\ last.page # "main" /\ current_page # "main"
  /\ FolderKey(last.page, 0)
  /\ current_page = UpTarget(last.page)
  /\ \E i \in Slots :
       /\ DownKey(current_page, i)
       /\ CurrentKey(i).state = last.page

(***************************************************************************)
(* C20                                                                     *)
(***************************************************************************)
\* __key_change_callback without the test deck == self.deck: the event of
\* another device is handled like one of the Manager's own
KeyChangeCallbackAnyDeck(stash, cp, disp, key, state) ==
  KeyChangeCallback(stash, cp, disp, key, state)

\* Manager.__key_change_callback called with a deck that is not the
\* Manager's: deck == self.deck is false and nothing is done
OtherDeckCallback(stash, cp, disp, key, state) ==
  [page_stash |-> stash, current_page |-> cp, display |-> disp,
   last |-> Ended("other_deck_event", key, state, cp, "ok", 0, {})]

\* the callback is called for a key of another device
KeyChangeOther ==
  /\ key_callback
  /\ \E key \in Slots : \E state \in BOOLEAN :
       LET r == OtherDeckCallback(page_stash, current_page, display, key, state)
       IN  /\ page_stash' = r.page_stash
           /\ current_page' = r.current_page
           /\ display' = r.display
           /\ last' = r.last
  /\ UNCHANGED << returned, config, fun_lib, pc, stack, parser, key_callback,
                  phys >>

NextDecks ==
  \/ ManagerInit
  \/ LoadConfig
  \/ PopulateNew
  \/ PopulateUp
  \/ PopulateFolder
  \/ PopulateKey
  \/ PopulateDrop
  \/ PopulateReturn
  \/ SetPage
  \/ FinalRender
  \/ KeyChange
  \/ KeyChangeOther

\* a key with two looks beside a folder whose page lists more than fit
cfgDecks ==
  Config(<< leafToggle, Folder("F", "sub", << leafToggle, leafA, leafA, leafA >>) >>)

InitDecks == InitWith({cfgDecks}, {libNoop})

\* the program with a second device whose events reach the callback
SpecDecks == InitDecks /\ [][NextDecks]_vars

\* Key k with its pressed flag left out of account
Unpressed(k) == IF k = NoKey THEN k ELSE [k EXCEPT !.pressed = FALSE]

\* this step is neither a step of Parser.__init__ nor an event of the
\* Manager's own device
OtherDeckStep == pc' = pc /\ stack' = stack /\ phys' = phys

\* C20: an event of the Manager's device for key i, the slot empty or its
\* Key one with the folder or the empty callback, leaves the set of pages
\* and every slot of every page as they are, but for the pressed flag of
\* the Key at slot i of the page current when the event starts; an event
\* of another device changes no page, not current_page and not the display,
\* and runs no render pass
C20_FrameOfOneEvent ==
  [][/\ \A i \in Slots :
          ( /\ Reported(i)
            /\ current_page \in DOMAIN page_stash
            /\ \/ CurrentKey(i) = NoKey
               \/ CurrentKey(i).on_press_fun \in {"folder", "empty"} )
          => /\ DOMAIN page_stash' = DOMAIN page_stash
             /\ \A P \in DOMAIN page_stash :
                  /\ page_stash'[P].name = page_stash[P].name
                  /\ \A s \in Slots :
                       IF P = current_page /\ s = i
                         THEN Unpressed(page_stash'[P].deck_keys[s]) =
                                Unpressed(page_stash[P].deck_keys[s])
                         ELSE page_stash'[P].deck_keys[s] =
                                page_stash[P].deck_keys[s]
     /\ OtherDeckStep
        => /\ page_stash' = page_stash
           /\ current_page' = current_page
           /\ display' = display
           /\ last'.renders = 0]_vars

\* an event of another device has come while the Manager stands on a folder
\* page with a Key held down and shown pressed
C20_Witness ==
  /\ pc = "done" /\ last.op = "other_deck_event"
  /\ current_page \in DOMAIN page_stash /\ current_page # "main"
  /\ \E i \in Slots :
       /\ CurrentKey(i) # NoKey /\ CurrentKey(i).pressed /\ phys[i]
       /\ display[i].label = CurrentKey(i).label_pressed
       /\ CurrentKey(i).label_pressed # CurrentKey(i).label_released

====
